---- MODULE Spec2Model ----
(***************************************************************************)
(* Statement pipeline (parse, normalize, categorize, summarize) and the    *)
(* month-tab section upsert of app/sheets.py, as state machines.           *)
(*                                                                         *)
(* Spec      one month tab, upsert_card_section invoked sequentially.      *)
(* SpecSum   one month tab, upsert_card_section followed by                *)
(*           write_section_summary, invoked sequentially.                  *)
(* SpecMain  one run of main with --sheet on one batch.                    *)
(* SpecConc  two invocations of upsert_card_section whose store round      *)
(*           trips interleave.                                             *)
(***************************************************************************)
EXTENDS Integers, Sequences, FiniteSets, TLC

VARIABLES
    colA,       \* month tab, column A: row -> cell text ("" = empty cell)
    body,       \* month tab, columns B..F of a row, as one value ("" = empty)
    bg,         \* rows whose A:F background was set by set_background
    owner,      \* history: label of the invocation that last wrote a row ("" = none)
    call,       \* history: the last completed upsert (label, rows, branch, anchor, at)
    ncalls,     \* number of upsert invocations started so far
    created,    \* history: label -> the anchors returned by its CREATE branches, in order
    inv,        \* SpecConc: the in-flight invocations, process -> locals
    bank,       \* pipeline: bank name of the statement (text)
    account_type, \* pipeline: account type of the statement (text)
    txns,       \* pipeline: the extractor's transactions
    df,         \* pipeline: the DataFrame built from to_csv_rows
    out,        \* pipeline: what summarize returned, or the error that ended the run
    stage,      \* pipeline: "off", "extracted", "frame", "summarized", "aborted", "failed"
    colH,       \* month tab, columns H and I of a row: [h, i], two texts (<<>> = empty cell)
    tab_exists, \* the month tab exists in the spreadsheet
    sumcall,    \* history: the last write_section_summary (label, anchor, values written)
    slots       \* history: label -> the rows its summary writes have covered

sheetVars == <<colA, body, bg, owner, call, ncalls, created, inv>>

pipeVars == <<bank, account_type, txns, df, out, stage>>

sideVars == <<colH, tab_exists, sumcall, slots>>

vars == <<sheetVars, pipeVars, sideVars>>

(***************************************************************************)
(* Bounds.                                                                 *)
(***************************************************************************)
MaxRow ==
    13

MaxRowsPerCall ==
    2

MaxCalls ==
    4

MaxWords ==
    2

MaxBatch ==
    3

Rows == 1..MaxRow

Labels == {"RBC CHQ", "Scotia Amex"}

Procs == {1, 2}

(***************************************************************************)
(* Cells.  An optional cell value is a sequence of length <= 1: <<>> is    *)
(* Python None (JSON null, which values.update skips), <<s>> is the text s.*)
(***************************************************************************)
Max(a, b) ==
    IF a >= b THEN a ELSE b

None == <<>>

Some(s) == <<s>>

\* t.get("date"): a date text, the empty text, or missing
Dates == {Some("2025-11-03"), Some(""), None}

\* columns B..F of a data row (Category, Merchant/Description, Amount, Bank, IsBookkeeping)
Payloads == {"Other|Shop|5.0|RBC|False", "Eating Out|Starbucks|4.5|RBC|False"}

DataRows == [a : Dates, b : {Some(p) : p \in Payloads}]

RowLists == UNION {[1..n -> DataRows] : n \in 0..MaxRowsPerCall}

section_header(card_label) ==
    "XXXXXX " \o card_label \o " XXXXXX"

TitlesBody == "Category|Merchant/Description|Amount|Bank|IsBookkeeping"

table_header == <<[a |-> Some("Date"), b |-> Some(TitlesBody)]>>

(***************************************************************************)
(* The store's read of column A: values().get(range = A{from}:A) returns   *)
(* the rows from `from` to the last non-empty cell of the column; an empty *)
(* cell inside the range comes back as an empty row.                       *)
(***************************************************************************)
RECURSIVE LastNonEmpty(_, _)
LastNonEmpty(col, r) ==
    IF r = 0 THEN 0
    ELSE IF col[r] # "" THEN r
    ELSE LastNonEmpty(col, r - 1)

values_get(col, from) ==
    [i \in 1..Max(LastNonEmpty(col, MaxRow) - from + 1, 0) |-> col[from + i - 1]]

get_last_row(col) ==
    Len(values_get(col, 1))

RECURSIVE find_from(_, _, _)
find_from(col, target, i) ==
    IF i > Len(col) THEN 0
    ELSE IF col[i] # "" /\ col[i] = target THEN i
    ELSE find_from(col, target, i + 1)

\* slip: the cell is tested for being non-empty only, not against the header
RECURSIVE find_nonempty_from(_, _)
find_nonempty_from(col, i) ==
    IF i > Len(col) THEN 0
    ELSE IF col[i] # "" THEN i
    ELSE find_nonempty_from(col, i + 1)

find_section_anchor_any(col, header) ==
    find_nonempty_from(values_get(col, 1), 1)

\* 0 stands for None: rows are 1-based
find_section_anchor(col, header) ==
    find_from(values_get(col, 1), header, 1)

(***************************************************************************)
(* values().update at start_cell: the cells given are written, a null cell *)
(* and every cell outside the given rows is left as it was.                *)
(***************************************************************************)
Covers(start, vals, r) ==
    r >= start /\ r < start + Len(vals)

append_colA(col, start, vals) ==
    [r \in Rows |->
        IF Covers(start, vals, r) /\ vals[r - start + 1].a # None
        THEN vals[r - start + 1].a[1] ELSE col[r]]

append_body(bd, start, vals) ==
    [r \in Rows |->
        IF Covers(start, vals, r) /\ vals[r - start + 1].b # None
        THEN vals[r - start + 1].b[1] ELSE bd[r]]

\* endRowIndex is exclusive: rows start_row .. end_row - 1
set_background(b, start_row, end_row) ==
    b \cup {r \in Rows : r >= start_row /\ r < end_row}

(***************************************************************************)
(* upsert_card_section, CREATE branch (anchor is None).                    *)
(***************************************************************************)
\* slip: the empty tab is not given its spare top rows
slip_create_start_row(col) ==
    get_last_row(col) + 2

create_start_row(col) ==
    Max(get_last_row(col), 1) + 2

create_payload(card_label, rows) ==
    <<[a |-> Some(section_header(card_label)), b |-> None]>> \o table_header \o rows

(***************************************************************************)
(* upsert_card_section, APPEND branch: the scan of colA[2:] for the first  *)
(* empty cell.                                                             *)
(***************************************************************************)
RECURSIVE scan_append_at(_, _, _, _)
scan_append_at(colFrom, k, i, append_at) ==
    IF k > Len(colFrom) THEN append_at
    ELSE IF colFrom[k] = "" THEN i
    ELSE scan_append_at(colFrom, k + 1, i + 1, i + 1)

append_at_row(col, anchor) ==
    scan_append_at(values_get(col, anchor), 3, anchor + 2, anchor + 2)

(***************************************************************************)
(* upsert_card_section as one call: the sheet after it, and what it        *)
(* returns.                                                                *)
(***************************************************************************)
upsert_card_section(col, bd, b, card_label, rows) ==
    LET anchor == find_section_anchor(col, section_header(card_label)) IN
    IF anchor = 0
    THEN LET start_row == create_start_row(col)
             payload == create_payload(card_label, rows) IN
         [colA |-> append_colA(col, start_row, payload),
          body |-> append_body(bd, start_row, payload),
          bg |-> set_background(b, start_row, start_row + 1),
          branch |-> "CREATE", anchor |-> start_row,
          at |-> start_row, n |-> Len(payload)]
    ELSE LET append_at == append_at_row(col, anchor) IN
         [colA |-> append_colA(col, append_at, rows),
          body |-> append_body(bd, append_at, rows),
          bg |-> b,
          branch |-> "APPEND", anchor |-> anchor,
          at |-> append_at, n |-> Len(rows)]

NoCall == [label |-> "", rows |-> <<>>, branch |-> "", anchor |-> 0, at |-> 0]

Idle == [pc |-> "idle", label |-> "", rows |-> <<>>, anchor |-> 0, at |-> 0]

\* the new, empty month tab
SheetInit ==
    /\ colA = [r \in Rows |-> ""]
    /\ body = [r \in Rows |-> ""]
    /\ bg = {}
    /\ owner = [r \in Rows |-> ""]
    /\ call = NoCall
    /\ ncalls = 0
    /\ created = [l \in Labels |-> <<>>]
    /\ inv = [p \in Procs |-> Idle]

\* no batch in the pipeline
PipeOff ==
    /\ bank = <<>>
    /\ account_type = <<>>
    /\ txns = <<>>
    /\ df = [columns |-> {}, rows |-> <<>>]
    /\ out = [err |-> "", lines |-> <<>>]
    /\ stage = "off"

NoCell == [h |-> <<>>, i |-> <<>>]

NoSumCall == [label |-> "", anchor |-> 0, values |-> <<>>]

\* the tab is there and its side columns are empty
SideInit ==
    /\ colH = [r \in Rows |-> NoCell]
    /\ tab_exists = TRUE
    /\ sumcall = NoSumCall
    /\ slots = [l \in Labels |-> {}]

Init ==
    SheetInit /\ PipeOff /\ SideInit

\* one sequential invocation of upsert_card_section(month, label, rows)
Upsert(card_label, rows) ==
    /\ ncalls < MaxCalls
    /\ \E res \in {upsert_card_section(colA, body, bg, card_label, rows)} :
        /\ res.at + res.n - 1 <= MaxRow
        /\ colA' = res.colA
        /\ body' = res.body
        /\ bg' = res.bg
        /\ owner' = [r \in Rows |->
                        IF r >= res.at /\ r < res.at + res.n THEN card_label ELSE owner[r]]
        /\ call' = [label |-> card_label, rows |-> rows, branch |-> res.branch,
                    anchor |-> res.anchor, at |-> res.at]
        /\ ncalls' = ncalls + 1
        /\ created' = IF res.branch = "CREATE"
                      THEN [created EXCEPT ![card_label] = Append(@, res.anchor)]
                      ELSE created
        /\ UNCHANGED inv
        /\ UNCHANGED pipeVars
        /\ UNCHANGED sideVars

Next ==
    \E card_label \in Labels, rows \in RowLists : Upsert(card_label, rows)

Spec ==
    Init /\ [][Next]_vars

(***************************************************************************)
(* SpecConc: two invocations of upsert_card_section on one month tab, each *)
(* store round trip (values.get, values.update, batchUpdate) one step.     *)
(* Every row has a date, so whatever is lost is lost to the interleaving.  *)
(***************************************************************************)
DatedRows == [a : {Some("2025-11-03")}, b : {Some(p) : p \in Payloads}]

DatedRowLists == UNION {[1..n -> DatedRows] : n \in 0..MaxRowsPerCall}

\* the tab before the two invocations: empty, or left by one earlier run
EarlierRuns ==
    {<<>>} \cup {<<[label |-> l, rows |-> <<d>>]>> : l \in {"RBC CHQ"}, d \in DatedRows}

InitConc ==
    /\ \E pre \in EarlierRuns :
         \E res \in {IF pre = <<>>
                      THEN [colA |-> [r \in Rows |-> ""], body |-> [r \in Rows |-> ""],
                            bg |-> {}, at |-> 1, n |-> 0]
                      ELSE upsert_card_section([r \in Rows |-> ""], [r \in Rows |-> ""],
                                               {}, pre[1].label, pre[1].rows)} :
            /\ colA = res.colA
            /\ body = res.body
            /\ bg = res.bg
            /\ owner = [r \in Rows |->
                           IF r >= res.at /\ r < res.at + res.n THEN pre[1].label ELSE ""]
    /\ call = NoCall
    /\ ncalls = 0
    /\ created = [l \in Labels |-> <<>>]
    /\ inv = [p \in Procs |-> Idle]
    /\ PipeOff
    /\ SideInit

\* main calls upsert_card_section(month, label, rows)
Begin(p, card_label, rows) ==
    /\ inv[p].pc = "idle"
    /\ inv' = [inv EXCEPT ![p] = [pc |-> "search", label |-> card_label, rows |-> rows,
                                  anchor |-> 0, at |-> 0]]
    /\ ncalls' = ncalls + 1
    /\ UNCHANGED <<colA, body, bg, owner, call, created>>
    /\ UNCHANGED pipeVars
    /\ UNCHANGED sideVars

\* SEARCH: anchor = find_section_anchor(...)
Search(p) ==
    /\ inv[p].pc = "search"
    /\ \E anchor \in {find_section_anchor(colA, section_header(inv[p].label))} :
         inv' = [inv EXCEPT ![p].anchor = anchor,
                            ![p].pc = IF anchor = 0 THEN "get_last_row" ELSE "scan"]
    /\ UNCHANGED <<colA, body, bg, owner, call, ncalls, created>>
    /\ UNCHANGED pipeVars
    /\ UNCHANGED sideVars

\* CREATE: last = max(get_last_row(...), 1); start_row = last + 2
GetLastRow(p) ==
    /\ inv[p].pc = "get_last_row"
    /\ inv' = [inv EXCEPT ![p].at = create_start_row(colA), ![p].pc = "create"]
    /\ UNCHANGED <<colA, body, bg, owner, call, ncalls, created>>
    /\ UNCHANGED pipeVars
    /\ UNCHANGED sideVars

\* CREATE: append_values(..., _a1(start_row, 1), payload)
CreateWrite(p) ==
    /\ inv[p].pc = "create"
    /\ \E payload \in {create_payload(inv[p].label, inv[p].rows)} :
         /\ inv[p].at + Len(payload) - 1 <= MaxRow
         /\ colA' = append_colA(colA, inv[p].at, payload)
         /\ body' = append_body(body, inv[p].at, payload)
         /\ owner' = [r \in Rows |->
                         IF Covers(inv[p].at, payload, r) THEN inv[p].label ELSE owner[r]]
    /\ created' = [created EXCEPT ![inv[p].label] = Append(@, inv[p].at)]
    /\ inv' = [inv EXCEPT ![p].pc = "set_background"]
    /\ UNCHANGED <<bg, call, ncalls>>
    /\ UNCHANGED pipeVars
    /\ UNCHANGED sideVars

\* CREATE: set_background(...); return start_row
SetBackground(p) ==
    /\ inv[p].pc = "set_background"
    /\ bg' = set_background(bg, inv[p].at, inv[p].at + 1)
    /\ inv' = [inv EXCEPT ![p].anchor = inv[p].at, ![p].pc = "done"]
    /\ UNCHANGED <<colA, body, owner, call, ncalls, created>>
    /\ UNCHANGED pipeVars
    /\ UNCHANGED sideVars

\* APPEND: colA = values.get(A{anchor}:A) and the scan for append_at
Scan(p) ==
    /\ inv[p].pc = "scan"
    /\ inv' = [inv EXCEPT ![p].at = append_at_row(colA, inv[p].anchor), ![p].pc = "append"]
    /\ UNCHANGED <<colA, body, bg, owner, call, ncalls, created>>
    /\ UNCHANGED pipeVars
    /\ UNCHANGED sideVars

\* APPEND: append_values(..., _a1(append_at, 1), rows); return anchor
AppendWrite(p) ==
    /\ inv[p].pc = "append"
    /\ inv[p].at + Len(inv[p].rows) - 1 <= MaxRow
    /\ colA' = append_colA(colA, inv[p].at, inv[p].rows)
    /\ body' = append_body(body, inv[p].at, inv[p].rows)
    /\ owner' = [r \in Rows |->
                    IF Covers(inv[p].at, inv[p].rows, r) THEN inv[p].label ELSE owner[r]]
    /\ inv' = [inv EXCEPT ![p].pc = "done"]
    /\ UNCHANGED <<bg, call, ncalls, created>>
    /\ UNCHANGED pipeVars
    /\ UNCHANGED sideVars

NextConc ==
    \E p \in Procs :
        \/ \E card_label \in Labels, rows \in DatedRowLists : Begin(p, card_label, rows)
        \/ Search(p)
        \/ GetLastRow(p)
        \/ CreateWrite(p)
        \/ SetBackground(p)
        \/ Scan(p)
        \/ AppendWrite(p)

SpecConc ==
    InitConc /\ [][NextConc]_vars

(***************************************************************************)
(* The statement pipeline.  A text is a sequence of one-character strings; *)
(* a description is the sequence of its blank-separated words.  Amounts    *)
(* are counted in cents.                                                   *)
(***************************************************************************)
Digits == {"0", "1", "2", "3", "4", "5", "6", "7", "8", "9"}

DigitVal(c) ==
    CASE c = "0" -> 0 [] c = "1" -> 1 [] c = "2" -> 2 [] c = "3" -> 3 [] c = "4" -> 4
      [] c = "5" -> 5 [] c = "6" -> 6 [] c = "7" -> 7 [] c = "8" -> 8 [] c = "9" -> 9

\* str.lower() on one character
LowerChar(c) ==
    CASE c = "A" -> "a" [] c = "B" -> "b" [] c = "C" -> "c" [] c = "D" -> "d"
      [] c = "E" -> "e" [] c = "F" -> "f" [] c = "G" -> "g" [] c = "H" -> "h"
      [] c = "I" -> "i" [] c = "J" -> "j" [] c = "K" -> "k" [] c = "L" -> "l"
      [] c = "M" -> "m" [] c = "N" -> "n" [] c = "O" -> "o" [] c = "P" -> "p"
      [] c = "Q" -> "q" [] c = "R" -> "r" [] c = "S" -> "s" [] c = "T" -> "t"
      [] c = "U" -> "u" [] c = "V" -> "v" [] c = "W" -> "w" [] c = "X" -> "x"
      [] c = "Y" -> "y" [] c = "Z" -> "z" [] OTHER -> c

Lower(s) ==
    [i \in 1..Len(s) |-> LowerChar(s[i])]

\* \w of the re module, on the characters the model uses
WordChar(c) ==
    \/ c \in Digits
    \/ c = "_"
    \/ LowerChar(c) # c
    \/ c \in {"a", "b", "c", "d", "e", "f", "g", "h", "i", "j", "k", "l", "m",
              "n", "o", "p", "q", "r", "s", "t", "u", "v", "w", "x", "y", "z"}

RECURSIVE lstrip(_)
lstrip(s) ==
    IF s # <<>> /\ s[1] = " " THEN lstrip(Tail(s)) ELSE s

RECURSIVE rstrip(_)
rstrip(s) ==
    IF s # <<>> /\ s[Len(s)] = " " THEN rstrip(SubSeq(s, 1, Len(s) - 1)) ELSE s

strip(s) ==
    rstrip(lstrip(s))

\* needle in hay
Contains(hay, needle) ==
    \E i \in 1..(Len(hay) - Len(needle) + 1) :
        SubSeq(hay, i, i + Len(needle) - 1) = needle

Without(s, c) ==
    SelectSeq(s, LAMBDA x : x # c)

\* \b<w>\b matches at position i of s, case-insensitive (w has two letters)
TokenAt(s, w, i) ==
    /\ i + 1 <= Len(s)
    /\ LowerChar(s[i]) = w[1] /\ LowerChar(s[i + 1]) = w[2]
    /\ (i = 1 \/ ~WordChar(s[i - 1]))
    /\ (i + 1 = Len(s) \/ ~WordChar(s[i + 2]))

HasToken(s, w) ==
    \E i \in 1..Len(s) : TokenAt(s, w, i)

\* re.sub(r"\b<w>\b", "", s): every occurrence removed
RECURSIVE RemoveToken(_, _, _)
RemoveToken(s, w, i) ==
    IF i > Len(s) THEN <<>>
    ELSE IF TokenAt(s, w, i) THEN RemoveToken(s, w, i + 2)
    ELSE <<s[i]>> \o RemoveToken(s, w, i + 1)

\* s with every "." after the first one removed
RECURSIVE CollapseDots(_, _)
CollapseDots(s, seen) ==
    IF s = <<>> THEN <<>>
    ELSE IF s[1] = "." THEN (IF seen THEN <<>> ELSE <<".">>) \o CollapseDots(Tail(s), TRUE)
    ELSE <<s[1]>> \o CollapseDots(Tail(s), seen)

RECURSIVE DigitsValue(_, _)
DigitsValue(s, acc) ==
    IF s = <<>> THEN acc ELSE DigitsValue(Tail(s), 10 * acc + DigitVal(s[1]))

\* float(s) for s over the characters 0-9 . + -: whether it parses, and its
\* value in cents (inputs carry at most two decimals)
FloatOf(s) ==
    LET signed == s # <<>> /\ s[1] \in {"+", "-"}
        num == IF signed THEN Tail(s) ELSE s
        dots == {i \in 1..Len(num) : num[i] = "."}
        dot == IF dots = {} THEN Len(num) + 1 ELSE CHOOSE i \in dots : TRUE
        whole == SubSeq(num, 1, dot - 1)
        frac == SubSeq(num, dot + 1, Len(num))
        frac2 == SubSeq(frac \o <<"0", "0">>, 1, 2)
        ok == /\ \A i \in 1..Len(num) : num[i] \in Digits \cup {"."}
              /\ Cardinality(dots) <= 1
              /\ \E i \in 1..Len(num) : num[i] \in Digits
        mag == 100 * DigitsValue(whole, 0) + DigitsValue(frac2, 0)
    IN  IF ok THEN [ok |-> TRUE, v |-> IF signed /\ s[1] = "-" THEN -mag ELSE mag]
        ELSE [ok |-> FALSE, v |-> 0]

Abs(x) ==
    IF x < 0 THEN -x ELSE x

\* parse_amount(x): [ok |-> FALSE] is the ValueError
parse_amount(x) ==
    LET s0 == IF x = None THEN <<>> ELSE strip(x[1])
        paren == s0 # <<>> /\ s0[1] = "(" /\ s0[Len(s0)] = ")"
        s1 == IF paren THEN strip(SubSeq(s0, 2, Len(s0) - 1)) ELSE s0
        minus == s1 # <<>> /\ s1[Len(s1)] = "-"
        s2 == IF minus THEN strip(SubSeq(s1, 1, Len(s1) - 1)) ELSE s1
        cr == HasToken(s2, <<"c", "r">>)
        s3 == IF cr THEN strip(RemoveToken(s2, <<"c", "r">>, 1)) ELSE s2
        s4 == IF HasToken(s3, <<"d", "r">>) THEN strip(RemoveToken(s3, <<"d", "r">>, 1)) ELSE s3
        s5 == strip(Without(Without(s4, "$"), ","))
        s6 == SelectSeq(s5, LAMBDA c : c \in Digits \cup {".", "-", "+"})
        s7 == CollapseDots(s6, FALSE)
        neg == paren \/ minus \/ cr
        val == FloatOf(s7)
    IN  IF s0 = <<>> THEN [ok |-> FALSE, v |-> 0]
        ELSE IF s7 \in {<<>>, <<"-">>, <<"+">>, <<".">>} THEN [ok |-> FALSE, v |-> 0]
        ELSE IF ~val.ok THEN [ok |-> FALSE, v |-> 0]
        ELSE [ok |-> TRUE, v |-> IF neg THEN -Abs(val.v) ELSE val.v]

(***************************************************************************)
(* Word-level matching of the hint and rule patterns: a pattern is the set *)
(* of word sequences its regular expression matches (\s* joins or          *)
(* separates two words, \s+ separates them); re.search with IGNORECASE     *)
(* finds one of them among the lower-cased words of the description.       *)
(***************************************************************************)
LowerWord(w) ==
    CASE w = "Bill" -> "bill" [] w = "Payment" -> "payment" [] w = "Interac" -> "interac"
      [] w = "Starbucks" -> "starbucks" [] w = "Deposit" -> "deposit"
      [] w = "E-Transfer" -> "e-transfer" [] OTHER -> w

LowerWords(d) ==
    [i \in 1..Len(d) |-> LowerWord(d[i])]

PhraseAt(d, phrase, i) ==
    /\ i + Len(phrase) - 1 <= Len(d)
    /\ SubSeq(d, i, i + Len(phrase) - 1) = phrase

\* _m(p, s): re.search(p, s, flags=re.IGNORECASE) is not None
_m(p, s) ==
    \E phrase \in p : \E i \in 1..Len(s) : PhraseAt(LowerWords(s), phrase, i)

INCOME_HINTS ==
    <<
      \* \bpayroll\b
      {<<"payroll">>},
      \* \bsalary\b
      {<<"salary">>},
      \* \bdeposit\b
      {<<"deposit">>},
      \* \binterest\b
      {<<"interest">>},
      \* \brefund\b
      {<<"refund">>},
      \* \breversal\b
      {<<"reversal">>},
      \* \bcredit\b
      {<<"credit">>},
      \* \bcr\b
      {<<"cr">>},
      \* \bpos\s+return\b
      {<<"pos", "return">>},
      \* \bmonthly\s*fee\s*rebate\b
      {<<"monthly", "fee", "rebate">>, <<"monthly", "feerebate">>, <<"monthlyfee", "rebate">>, <<"monthlyfeerebate">>},
      \* \bmisc\s*payment\s*sunlife\b
      {<<"misc", "payment", "sunlife">>, <<"misc", "paymentsunlife">>, <<"miscpayment", "sunlife">>, <<"miscpaymentsunlife">>},
      \* \be[il]\s*canada\b
      {<<"ei", "canada">>, <<"eicanada">>, <<"el", "canada">>, <<"elcanada">>},
      \* \bc[il]\s*canada\b
      {<<"ci", "canada">>, <<"cicanada">>, <<"cl", "canada">>, <<"clcanada">>},
      \* \bei\s+benefit\b
      {<<"ei", "benefit">>},
      \* \bemployment\s+insurance\b
      {<<"employment", "insurance">>},
      \* \bservice\s+canada\b
      {<<"service", "canada">>}
    >>

CREDIT_CARD_PAYMENT_HINTS ==
    <<
      \* \bcrd\.?\s*card\b
      {<<"crd", "card">>, <<"crd.", "card">>, <<"crd.card">>, <<"crdcard">>},
      \* \bcredit\s*card\b
      {<<"credit", "card">>, <<"creditcard">>},
      \* \bbill\s*payment\b
      {<<"bill", "payment">>, <<"billpayment">>},
      \* \bloc\s*pay\b
      {<<"loc", "pay">>, <<"locpay">>},
      \* \bcard\s*payment\b
      {<<"card", "payment">>, <<"cardpayment">>}
    >>

RULES ==
    <<
      [cat |-> "Credit Card Payment", patterns |-> <<
          \* \bcrd\.?\s*card\b
          {<<"crd", "card">>, <<"crd.", "card">>, <<"crd.card">>, <<"crdcard">>},
          \* \bcredit\s*card\b
          {<<"credit", "card">>, <<"creditcard">>},
          \* \bbill\s*payment\b
          {<<"bill", "payment">>, <<"billpayment">>},
          \* \bmb-?credit\s*card/loc\s*pay\b
          {<<"mb-credit", "card/loc", "pay">>, <<"mb-credit", "card/locpay">>, <<"mb-creditcard/loc", "pay">>, <<"mb-creditcard/locpay">>, <<"mbcredit", "card/loc", "pay">>, <<"mbcredit", "card/locpay">>, <<"mbcreditcard/loc", "pay">>, <<"mbcreditcard/locpay">>},
          \* \bloc\s*pay\b
          {<<"loc", "pay">>, <<"locpay">>}
      >>],
      [cat |-> "Transfers", patterns |-> <<
          \* \be-?transfer\b
          {<<"e-transfer">>, <<"etransfer">>},
          \* \binterac\b
          {<<"interac">>},
          \* \bcustomer\s*transfer\b
          {<<"customer", "transfer">>, <<"customertransfer">>},
          \* \bbr\s*to\s*br\b
          {<<"br", "to", "br">>, <<"br", "tobr">>, <<"brto", "br">>, <<"brtobr">>}
      >>],
      [cat |-> "Income", patterns |-> <<
          \* \bpayroll\b
          {<<"payroll">>},
          \* \bsalary\b
          {<<"salary">>}
      >>],
      [cat |-> "Refund", patterns |-> <<
          \* \bpos\s*return\b
          {<<"pos", "return">>, <<"posreturn">>},
          \* \brefund\b
          {<<"refund">>},
          \* \breversal\b
          {<<"reversal">>}
      >>],
      [cat |-> "Fees", patterns |-> <<
          \* \bservice\s*charge\b
          {<<"service", "charge">>, <<"servicecharge">>},
          \* \bmonthly\s*fees\b
          {<<"monthly", "fees">>, <<"monthlyfees">>},
          \* \bmonthly\s*fee\b
          {<<"monthly", "fee">>, <<"monthlyfee">>},
          \* \bfee\s*rebate\b
          {<<"fee", "rebate">>, <<"feerebate">>}
      >>],
      [cat |-> "Utilities", patterns |-> <<
          \* \bhydro\s*ottawa\b
          {<<"hydro", "ottawa">>, <<"hydroottawa">>},
          \* \benbridge\b
          {<<"enbridge">>},
          \* \benercare\b
          {<<"enercare">>},
          \* \breliance\b
          {<<"reliance">>},
          \* \bwater\b
          {<<"water">>},
          \* \bgas\b
          {<<"gas">>}
      >>],
      [cat |-> "Phone/Internet", patterns |-> <<
          \* \bfido\b
          {<<"fido">>},
          \* \brogers\b
          {<<"rogers">>},
          \* \bbell\b
          {<<"bell">>},
          \* \btelus\b
          {<<"telus">>},
          \* \bvirgin\b
          {<<"virgin">>},
          \* \bkoodo\b
          {<<"koodo">>}
      >>],
      [cat |-> "Insurance", patterns |-> <<
          \* \bmanulife\b
          {<<"manulife">>},
          \* \bsun\s*life\b
          {<<"sun", "life">>, <<"sunlife">>},
          \* \binsurance\b
          {<<"insurance">>}
      >>],
      [cat |-> "Investments", patterns |-> <<
          \* \bws\s*investments\b
          {<<"ws", "investments">>, <<"wsinvestments">>},
          \* \binvestment\b
          {<<"investment">>}
      >>],
      [cat |-> "Groceries", patterns |-> <<
          \* \bt&?t\b
          {<<"t&t">>, <<"tt">>},
          \* \bsupermarket\b
          {<<"supermarket">>},
          \* \bindian\s*supermarket\b
          {<<"indian", "supermarket">>, <<"indiansupermarket">>},
          \* \bthe\s*indian\s*supermarket\b
          {<<"the", "indian", "supermarket">>, <<"the", "indiansupermarket">>, <<"theindian", "supermarket">>, <<"theindiansupermarket">>},
          \* \bshoppers\s*drug\s*mart\b
          {<<"shoppers", "drug", "mart">>, <<"shoppers", "drugmart">>, <<"shoppersdrug", "mart">>, <<"shoppersdrugmart">>}
      >>],
      [cat |-> "Wholesale", patterns |-> <<
          \* \bcostco\b
          {<<"costco">>}
      >>],
      [cat |-> "Subscriptions", patterns |-> <<
          \* \bamazon\s*prime\b
          {<<"amazon", "prime">>, <<"amazonprime">>},
          \* \bprime\b
          {<<"prime">>},
          \* \bchatgpt\b
          {<<"chatgpt">>},
          \* \bopenai\b
          {<<"openai">>}
      >>],
      [cat |-> "Retail", patterns |-> <<
          \* \bwalmart\b
          {<<"walmart">>},
          \* \bdollarama\b
          {<<"dollarama">>},
          \* \bamazon\b
          {<<"amazon">>}
      >>],
      [cat |-> "Eating Out", patterns |-> <<
          \* \bkfc\b
          {<<"kfc">>},
          \* \btaco\s*bell\b
          {<<"taco", "bell">>, <<"tacobell">>},
          \* \btim\s*hortons\b
          {<<"tim", "hortons">>, <<"timhortons">>},
          \* \bstarbucks\b
          {<<"starbucks">>},
          \* \bbiryani\b
          {<<"biryani">>}
      >>]
    >>

CategorizePrefixes ==
    <<
      \* pos\s*purchase
      {<<"pos", "purchase">>, <<"pospurchase">>},
      \* pos\s*return
      {<<"pos", "return">>, <<"posreturn">>},
      \* withdrawal
      {<<"withdrawal">>},
      \* deposit
      {<<"deposit">>},
      \* misc\s*payment
      {<<"misc", "payment">>, <<"miscpayment">>},
      \* utility\s*bill\s*pmt
      {<<"utility", "bill", "pmt">>, <<"utility", "billpmt">>, <<"utilitybill", "pmt">>, <<"utilitybillpmt">>},
      \* telephone\s*bill\s*pmt
      {<<"telephone", "bill", "pmt">>, <<"telephone", "billpmt">>, <<"telephonebill", "pmt">>, <<"telephonebillpmt">>}
    >>

MerchantPrefixes1 ==
    <<
      \* pos\s*purchase
      {<<"pos", "purchase">>, <<"pospurchase">>},
      \* pos\s*return
      {<<"pos", "return">>, <<"posreturn">>},
      \* withdrawal
      {<<"withdrawal">>},
      \* deposit
      {<<"deposit">>}
    >>

MerchantPrefixes2 ==
    <<
      \* fpos
      {<<"fpos">>}
    >>

MerchantPrefixes3 ==
    <<
      \* misc\s*payment
      {<<"misc", "payment">>, <<"miscpayment">>},
      \* utility\s*bill\s*pmt
      {<<"utility", "bill", "pmt">>, <<"utility", "billpmt">>, <<"utilitybill", "pmt">>, <<"utilitybillpmt">>},
      \* telephone\s*bill\s*pmt
      {<<"telephone", "bill", "pmt">>, <<"telephone", "billpmt">>, <<"telephonebill", "pmt">>, <<"telephonebillpmt">>}
    >>

RECURSIVE AnyPattern(_, _, _)
AnyPattern(patterns, s, j) ==
    IF j > Len(patterns) THEN FALSE
    ELSE IF _m(patterns[j], s) THEN TRUE
    ELSE AnyPattern(patterns, s, j + 1)

looks_like_income(desc) ==
    AnyPattern(INCOME_HINTS, desc, 1)

looks_like_cc_payment(desc) ==
    AnyPattern(CREDIT_CARD_PAYMENT_HINTS, desc, 1)

Str_deposit_account ==
    <<"d", "e", "p", "o", "s", "i", "t", "_", "a", "c", "c", "o", "u", "n", "t">>

Str_credit_card ==
    <<"c", "r", "e", "d", "i", "t", "_", "c", "a", "r", "d">>

Str_rbc == <<"r", "b", "c">>

Str_scotia == <<"s", "c", "o", "t", "i", "a">>

\* normalize_amount reads bank and account_type through (x or "").lower()
slip_normalize_amount(bank_name, acct_type, description, raw_amount) ==
    LET b == Lower(bank_name)
        t == Lower(acct_type)
        amt == raw_amount
    IN  IF t = Str_deposit_account \/ Contains(b, Str_rbc)
        THEN (IF looks_like_income(description) THEN -Abs(amt) ELSE Abs(amt))
        ELSE IF looks_like_income(description) \/ looks_like_cc_payment(description)
        THEN -Abs(amt)
        ELSE Abs(amt)

normalize_amount(bank_name, acct_type, description, raw_amount) ==
    LET b == Lower(bank_name)
        t == Lower(acct_type)
        amt == raw_amount
    IN  IF t = Str_deposit_account \/ (Contains(b, Str_rbc) /\ t = <<>>)
        THEN (IF looks_like_income(description) THEN -Abs(amt) ELSE Abs(amt))
        ELSE IF t = Str_credit_card \/ (Contains(b, Str_scotia) /\ t = <<>>)
        THEN (IF looks_like_income(description) \/ looks_like_cc_payment(description)
              THEN -Abs(amt) ELSE Abs(amt))
        ELSE IF looks_like_income(description) \/ looks_like_cc_payment(description)
        THEN -Abs(amt)
        ELSE Abs(amt)

\* re.sub(r"^(alt1|alt2|...)\s+", "", d): the first alternative that starts d and
\* is followed by another word is cut off
RECURSIVE StripPrefix(_, _, _)
StripPrefix(alternatives, d, k) ==
    IF k > Len(alternatives) THEN d
    ELSE IF \E phrase \in alternatives[k] :
                Len(d) > Len(phrase) /\ PhraseAt(LowerWords(d), phrase, 1)
    THEN LET phrase == CHOOSE ph \in alternatives[k] :
                            Len(d) > Len(ph) /\ PhraseAt(LowerWords(d), ph, 1)
         IN  SubSeq(d, Len(phrase) + 1, Len(d))
    ELSE StripPrefix(alternatives, d, k + 1)

RuleMatches(rule, d2, d) ==
    \E j \in 1..Len(rule.patterns) : _m(rule.patterns[j], d2) \/ _m(rule.patterns[j], d)

\* the rules walked from the last to the first
RECURSIVE slip_first_rule(_, _, _)
slip_first_rule(d2, d, k) ==
    IF k < 1 THEN 0
    ELSE IF RuleMatches(RULES[k], d2, d) THEN k
    ELSE slip_first_rule(d2, d, k - 1)

\* the loop over RULES: the index of the rule it returns from, 0 if it falls through
RECURSIVE first_rule(_, _, _)
first_rule(d2, d, k) ==
    IF k > Len(RULES) THEN 0
    ELSE IF RuleMatches(RULES[k], d2, d) THEN k
    ELSE first_rule(d2, d, k + 1)

\* slip: the last matching rule wins
slip_categorize(description, amount) ==
    LET d == description
        d2 == StripPrefix(CategorizePrefixes, d, 1)
        k == slip_first_rule(d2, d, Len(RULES))
    IN  IF k # 0 THEN RULES[k].cat
        ELSE IF amount < 0 THEN "Credit/Income"
        ELSE "Other"

categorize(description, amount) ==
    LET d == description
        d2 == StripPrefix(CategorizePrefixes, d, 1)
        k == first_rule(d2, d, 1)
    IN  IF k # 0 THEN RULES[k].cat
        ELSE IF amount < 0 THEN "Credit/Income"
        ELSE "Other"

BOOKKEEPING_CATEGORIES == {"Transfers", "Credit Card Payment"}

is_bookkeeping(category) ==
    category \in BOOKKEEPING_CATEGORIES

\* (t.get("description") or "").strip(), as words
DescriptionOf(t) ==
    IF t.description = None THEN <<>> ELSE t.description[1]

\* one pass of the loop of to_csv_rows; err = "ValueError" when parse_amount raises
RECURSIVE to_csv_rows_from(_, _, _, _, _)
to_csv_rows_from(bk, at, ts, i, rows) ==
    IF i > Len(ts) THEN [err |-> "", rows |-> rows]
    ELSE LET t == ts[i]
             desc == DescriptionOf(t)
             raw_amt == parse_amount(t.amount)
         IN  IF ~raw_amt.ok THEN [err |-> "ValueError", rows |-> <<>>]
             ELSE LET norm_amt == normalize_amount(bk, at, desc, raw_amt.v)
                      cat == categorize(desc, norm_amt)
                  IN  to_csv_rows_from(bk, at, ts, i + 1,
                          Append(rows, [Date |-> t.date, Category |-> cat,
                                        Merchant |-> desc, Amount |-> norm_amt,
                                        Bank |-> bk,
                                        IsBookkeeping |-> is_bookkeeping(cat)]))

\* slip: a record whose amount does not parse is skipped
slip_to_csv_rows(bk, at, ts) ==
    to_csv_rows_from(bk, at, SelectSeq(ts, LAMBDA t : parse_amount(t.amount).ok), 1, <<>>)

to_csv_rows(bk, at, ts) ==
    to_csv_rows_from(bk, at, ts, 1, <<>>)

\* _clean_merchant(desc): three prefix cuts in a row (blank runs are already
\* single in a word sequence)
clean_merchant(desc) ==
    StripPrefix(MerchantPrefixes3,
        StripPrefix(MerchantPrefixes2,
            StripPrefix(MerchantPrefixes1, desc, 1), 1), 1)

\* pd.DataFrame(rows): a list of dicts gives their keys as columns, an empty
\* list gives a frame without columns
RowColumns == {"Date", "Category", "Merchant/Description", "Amount", "Bank", "IsBookkeeping"}

DataFrame(rows) ==
    [columns |-> IF rows = <<>> THEN {} ELSE RowColumns, rows |-> rows]

NoFrame == [columns |-> {}, rows |-> <<>>]

\* str(bool).lower()
BoolText(b) ==
    IF b THEN "true" ELSE "false"

\* df["IsBookkeeping"].astype(str).str.lower().isin(["true", "1", "yes"])
IsBookkeepingFlag(r) ==
    BoolText(r.IsBookkeeping) \in {"true", "1", "yes"}

\* slip: the bookkeeping rows are not filtered out
slip_IsSpend(r) ==
    r.Amount > 0

\* df[(df["Amount"] > 0) & (~df["IsBookkeeping"])]
IsSpend(r) ==
    r.Amount > 0 /\ ~IsBookkeepingFlag(r)

RECURSIVE SumAmount(_)
SumAmount(rows) ==
    IF rows = <<>> THEN 0 ELSE rows[1].Amount + SumAmount(Tail(rows))

\* the group key of a row: the "Category" column, or the "MerchantClean" column
\* that summarize adds
KeyOf(r, by) ==
    IF by = "Category" THEN r.Category ELSE clean_merchant(r.Merchant)

\* spend.groupby(by)["Amount"].sum() at one key
GroupSum(spend, by, k) ==
    SumAmount(SelectSeq(spend, LAMBDA r : KeyOf(r, by) = k))

Keys(spend, by) ==
    {KeyOf(spend[i], by) : i \in 1..Len(spend)}

Min(a, b) ==
    IF a <= b THEN a ELSE b

\* sort_values(ascending=False).head(n): the orders the sort may return (equal
\* sums come in either order)
TopOrders(spend, by, n) ==
    LET ks == Keys(spend, by)
        len == Min(n, Cardinality(ks))
    IN  {s \in [1..len -> ks] :
            /\ \A i, j \in 1..len : i # j => s[i] # s[j]
            /\ \A i \in 1..(len - 1) : GroupSum(spend, by, s[i]) >= GroupSum(spend, by, s[i + 1])
            /\ \A k \in ks : (\A i \in 1..len : s[i] # k) =>
                    GroupSum(spend, by, k) <= GroupSum(spend, by, s[len])}

\* str.lower() of a category label
LowerCategory(c) ==
    IF c = "Eating Out" THEN "eating out" ELSE c

Line(label, na, name, amount, items) ==
    [label |-> label, na |-> na, name |-> name, amount |-> amount, items |-> items]

\* the four lines returned when len(spend) == 0
EmptySummary ==
    << Line("Total spend", FALSE, "", 0, <<>>),
       Line("Top category", TRUE, "", 0, <<>>),
       Line("Eating Out", FALSE, "", 0, <<>>),
       Line("Top merchants", TRUE, "", 0, <<>>) >>

\* summarize(df): the results it can return; err = "KeyError" when the frame has no
\* "Amount" column
summarize(frame) ==
    IF "Amount" \notin frame.columns \/ "IsBookkeeping" \notin frame.columns
    THEN {[err |-> "KeyError", lines |-> <<>>]}
    ELSE LET spend == SelectSeq(frame.rows, IsSpend)
             total_spend == SumAmount(spend)
         IN  IF Len(spend) = 0
             THEN {[err |-> "", lines |-> EmptySummary]}
             ELSE LET eating_out == SumAmount(SelectSeq(spend,
                                        LAMBDA r : LowerCategory(r.Category) = "eating out"))
                  IN  {[err |-> "",
                        lines |->
                          << Line("Total spend (excl. transfers/CC payments)", FALSE, "",
                                  total_spend, <<>>),
                             Line("Top category", FALSE, top[1],
                                  GroupSum(spend, "Category", top[1]), <<>>),
                             Line("Eating Out", FALSE, "", eating_out, <<>>),
                             Line("Top merchants", FALSE, "", 0,
                                  [i \in 1..Len(ms) |->
                                      [name |-> ms[i],
                                       amount |-> GroupSum(spend, "MerchantClean", ms[i])]]) >>] :
                          top \in TopOrders(spend, "Category", 1),
                          ms \in TopOrders(spend, "MerchantClean", 3)}

(***************************************************************************)
(* The run of the pipeline on one batch: to_csv_rows, DataFrame, summarize.*)
(* SpecRow draws one transaction from a wide range of descriptions, banks  *)
(* and account types; SpecPipe draws batches of a few transactions.        *)
(***************************************************************************)
Chars_RBC == <<"R", "B", "C">>

Chars_Scotiabank == <<"S", "c", "o", "t", "i", "a", "b", "a", "n", "k">>

Chars_TD == <<"T", "D">>

Chars_Credit_Card == <<"C", "r", "e", "d", "i", "t", "_", "C", "a", "r", "d">>

Chars_savings == <<"s", "a", "v", "i", "n", "g", "s">>

Banks == {Chars_RBC, Chars_Scotiabank, Chars_TD}

AccountTypes == {Str_deposit_account, Chars_Credit_Card, <<>>, Chars_savings}

\* "7.50", "-7.50", "2", "0" and a text without a number
Amt_7_50 == <<"7", ".", "5", "0">>

Amt_neg_7_50 == <<"-", "7", ".", "5", "0">>

Amt_2 == <<"2">>

Amt_0 == <<"0">>

Amt_bad == <<"n", "/", "a">>

\* bank transaction-type prefixes a description can start with
DescPrefixes == {<<>>, <<"pos", "purchase">>, <<"Deposit">>}

Words == {"payroll", "Bill", "Payment", "credit", "card", "Interac", "costco",
          "Starbucks", "shop"}

WordLists == UNION {[1..n -> Words] : n \in 0..MaxWords}

Descriptions == {p \o w : p \in DescPrefixes, w \in WordLists}

RowTxns ==
    [date : {Some("2025-11-03")},
     description : {Some(d) : d \in Descriptions},
     amount : {Some(Amt_7_50), Some(Amt_neg_7_50)}]

BatchDescriptions ==
    {<<"Starbucks">>, <<"pos", "purchase", "costco">>, <<"Interac">>,
     <<"Bill", "Payment">>, <<"payroll">>}

BatchTxns ==
    [date : {Some("2025-11-03")},
     description : {Some(d) : d \in BatchDescriptions},
     amount : {Some(Amt_7_50), Some(Amt_2)}]
    \cup {[date |-> Some("2025-11-03"), description |-> Some(<<"Starbucks">>),
           amount |-> Some(Amt_0)],
          [date |-> None, description |-> None, amount |-> Some(Amt_bad)]}

Batches == UNION {[1..n -> BatchTxns] : n \in 0..MaxBatch}

InitRow ==
    /\ SheetInit
    /\ SideInit
    /\ bank \in Banks
    /\ account_type \in AccountTypes
    /\ txns \in {<<t>> : t \in RowTxns}
    /\ df = NoFrame
    /\ out = [err |-> "", lines |-> <<>>]
    /\ stage = "extracted"

InitPipe ==
    /\ SheetInit
    /\ SideInit
    /\ bank = Chars_RBC
    /\ account_type \in {Str_deposit_account, Str_credit_card}
    /\ txns \in Batches
    /\ df = NoFrame
    /\ out = [err |-> "", lines |-> <<>>]
    /\ stage = "extracted"

\* df = pd.DataFrame(to_csv_rows(bank, account_type, txns)); a ValueError of
\* parse_amount ends the run
BuildFrame ==
    /\ stage = "extracted"
    /\ \E res \in {to_csv_rows(bank, account_type, txns)} :
         IF res.err # ""
         THEN /\ stage' = "aborted"
              /\ out' = [err |-> res.err, lines |-> <<>>]
              /\ df' = df
         ELSE /\ stage' = "frame"
              /\ df' = DataFrame(res.rows)
              /\ out' = out
    /\ UNCHANGED <<bank, account_type, txns>>
    /\ UNCHANGED sheetVars
    /\ UNCHANGED sideVars

\* summarize(df)
Summarize ==
    /\ stage = "frame"
    /\ \E res \in summarize(df) :
         /\ out' = res
         /\ stage' = IF res.err = "" THEN "summarized" ELSE "failed"
    /\ UNCHANGED <<bank, account_type, txns, df>>
    /\ UNCHANGED sheetVars
    /\ UNCHANGED sideVars

NextPipe ==
    BuildFrame \/ Summarize

SpecRow ==
    InitRow /\ [][NextPipe]_vars

SpecPipe ==
    InitPipe /\ [][NextPipe]_vars

(***************************************************************************)
(* write_section_summary.  A line is a sequence of pieces of text, ":" and *)
(* " " among them; values().update at H{anchor_row} writes the rows given  *)
(* into columns H and I (an empty text clears the cell) and leaves every   *)
(* other row as it was.                                                    *)
(***************************************************************************)
RECURSIVE ColonAt(_, _)
ColonAt(line, k) ==
    IF k > Len(line) THEN 0
    ELSE IF line[k] = ":" THEN k
    ELSE ColonAt(line, k + 1)

\* line.split(":", 1), both sides stripped; the whole line in H without a colon
summary_value(line) ==
    LET c == ColonAt(line, 1)
    IN  IF c # 0
        THEN [h |-> strip(SubSeq(line, 1, c - 1)), i |-> strip(SubSeq(line, c + 1, Len(line)))]
        ELSE [h |-> strip(line), i |-> <<>>]

\* for line in lines[:6]
summary_values(lines) ==
    [k \in 1..Min(Len(lines), 6) |-> summary_value(lines[k])]

write_section_summary(colHI, anchor_row, lines) ==
    LET values == summary_values(lines)
    IN  [r \in Rows |->
            IF Covers(anchor_row, values, r) THEN values[r - anchor_row + 1] ELSE colHI[r]]

(***************************************************************************)
(* SpecMain: one run of main with --sheet and --label on one batch:        *)
(* to_csv_rows and DataFrame (BuildFrame), then ensure_sheet,              *)
(* upsert_card_section and write_section_summary (SheetWrite), then the    *)
(* console output (PrintSummary).                                          *)
(***************************************************************************)
RECURSIVE JoinText(_, _)
JoinText(parts, sep) ==
    IF parts = <<>> THEN ""
    ELSE IF Len(parts) = 1 THEN parts[1]
    ELSE parts[1] \o sep \o JoinText(Tail(parts), sep)

\* df[[...]].values.tolist(), one row: the Date cell and the cells of B..F
row_values(r) ==
    [a |-> r.Date,
     b |-> Some(JoinText(<<r.Category, JoinText(r.Merchant, " "), ToString(r.Amount),
                           JoinText(r.Bank, ""), IF r.IsBookkeeping THEN "True" ELSE "False">>,
                         "|"))]

sheet_rows(frame) ==
    [k \in 1..Len(frame.rows) |-> row_values(frame.rows[k])]

\* f"${a:.2f}" of an amount in cents
Money(a) ==
    <<"$", ToString(a \div 100), ".", ToString((a % 100) \div 10), ToString(a % 10)>>

RECURSIVE MerchantItems(_)
MerchantItems(items) ==
    IF items = <<>> THEN <<>>
    ELSE <<JoinText(items[1].name, " "), " ", "(">> \o Money(items[1].amount) \o <<")">>
         \o (IF Len(items) = 1 THEN <<>> ELSE <<",", " ">> \o MerchantItems(Tail(items)))

\* the text of one line that summarize returns
summary_text(line) ==
    <<line.label, ":", " ">> \o
    (IF line.na THEN <<"N/A">>
     ELSE IF line.items # <<>> THEN MerchantItems(line.items)
     ELSE IF line.name # "" THEN <<line.name, " ", "(">> \o Money(line.amount) \o <<")">>
     ELSE Money(line.amount))

summary_texts(lines) ==
    [k \in 1..Len(lines) |-> summary_text(lines[k])]

MainLabel == "RBC CHQ"

OtherLabel == "Scotia Amex"

\* the transactions of a batch of SpecMain: a purchase, a transfer, a purchase
\* without a date, and a record whose amount has no number
MainTxns ==
    {[date |-> Some("2025-11-03"), description |-> Some(<<"Starbucks">>), amount |-> Some(Amt_7_50)],
     [date |-> Some("2025-11-03"), description |-> Some(<<"Interac">>), amount |-> Some(Amt_2)],
     [date |-> None, description |-> Some(<<"pos", "purchase", "costco">>), amount |-> Some(Amt_2)],
     [date |-> None, description |-> None, amount |-> Some(Amt_bad)]}

MainBatches == UNION {[1..n -> MainTxns] : n \in 0..MaxBatch}

EarlierRow(date) == [a |-> date, b |-> Some("Other|Shop|5.0|RBC|False")]

\* what an earlier run of main left in the tab: its label and its rows
EarlierMainRuns ==
    {[label |-> MainLabel, rows |-> <<EarlierRow(Some("2025-11-03"))>>],
     [label |-> OtherLabel, rows |-> <<>>],
     [label |-> OtherLabel, rows |-> <<EarlierRow(Some("2025-11-03"))>>],
     [label |-> OtherLabel, rows |-> <<EarlierRow(None)>>]}

\* the month tab before the run: missing, empty, or holding the section of an
\* earlier run
InitMain ==
    /\ \/ /\ tab_exists \in BOOLEAN
          /\ colA = [r \in Rows |-> ""]
          /\ body = [r \in Rows |-> ""]
          /\ bg = {}
       \/ \E e \in EarlierMainRuns :
            \E res \in {upsert_card_section([r \in Rows |-> ""], [r \in Rows |-> ""], {},
                                            e.label, e.rows)} :
               /\ tab_exists = TRUE
               /\ colA = res.colA
               /\ body = res.body
               /\ bg = res.bg
    /\ owner = [r \in Rows |-> ""]
    /\ call = NoCall
    /\ ncalls = 0
    /\ created = [l \in Labels |-> <<>>]
    /\ inv = [p \in Procs |-> Idle]
    /\ colH = [r \in Rows |-> NoCell]
    /\ sumcall = NoSumCall
    /\ slots = [l \in Labels |-> {}]
    /\ bank = Chars_RBC
    /\ account_type \in {Str_deposit_account, Str_credit_card}
    /\ txns \in MainBatches
    /\ df = NoFrame
    /\ out = [err |-> "", lines |-> <<>>]
    /\ stage = "extracted"

\* main, lines 188-211: ensure_sheet, then rows = df[[...]] (a KeyError on a frame
\* without columns), upsert_card_section and write_section_summary
SheetWrite ==
    /\ stage = "frame"
    /\ tab_exists' = TRUE
    /\ IF RowColumns \subseteq df.columns
       THEN \E res \in {upsert_card_section(colA, body, bg, MainLabel, sheet_rows(df))},
               sm \in summarize(df) :
              /\ res.at + res.n - 1 <= MaxRow
              /\ res.anchor + Len(sm.lines) - 1 <= MaxRow
              /\ colA' = res.colA
              /\ body' = res.body
              /\ bg' = res.bg
              /\ owner' = [r \in Rows |->
                             IF r >= res.at /\ r < res.at + res.n THEN MainLabel ELSE owner[r]]
              /\ call' = [label |-> MainLabel, rows |-> sheet_rows(df), branch |-> res.branch,
                          anchor |-> res.anchor, at |-> res.at]
              /\ ncalls' = ncalls + 1
              /\ created' = IF res.branch = "CREATE"
                            THEN [created EXCEPT ![MainLabel] = Append(@, res.anchor)]
                            ELSE created
              /\ colH' = write_section_summary(colH, res.anchor, summary_texts(sm.lines))
              /\ sumcall' = [label |-> MainLabel, anchor |-> res.anchor,
                             values |-> summary_values(summary_texts(sm.lines))]
              /\ slots' = [slots EXCEPT ![MainLabel] =
                             @ \cup {r \in Rows : Covers(res.anchor, sm.lines, r)}]
              /\ out' = sm
              /\ stage' = "sheet_written"
       ELSE /\ out' = [err |-> "KeyError", lines |-> <<>>]
            /\ stage' = "failed"
            /\ UNCHANGED <<colA, body, bg, owner, call, ncalls, created>>
            /\ UNCHANGED <<colH, sumcall, slots>>
    /\ UNCHANGED <<inv, bank, account_type, txns, df>>

\* main, lines 216-219: print("\n".join(summarize(df)))
PrintSummary ==
    /\ stage = "sheet_written"
    /\ \E res \in summarize(df) :
         /\ out' = res
         /\ stage' = "summarized"
    /\ UNCHANGED <<bank, account_type, txns, df>>
    /\ UNCHANGED sheetVars
    /\ UNCHANGED sideVars

NextMain ==
    BuildFrame \/ SheetWrite \/ PrintSummary

SpecMain ==
    InitMain /\ [][NextMain]_vars

(***************************************************************************)
(* SpecSum: sequential runs of main's store part, upsert_card_section and  *)
(* then write_section_summary at the anchor it returned, with the rows and *)
(* the summary lines left free.  The tab starts empty or as three earlier  *)
(* runs left it.                                                           *)
(***************************************************************************)
MaxRuns ==
    2

SumRows == {EarlierRow(Some("2025-11-03")), EarlierRow(None)}

SumRowLists == UNION {[1..n -> SumRows] : n \in 0..MaxRowsPerCall}

\* seven summary lines: with one colon, with two, without, with blanks around
Edition(e) ==
    << <<"Total spend", ":", " ", e>>,
       <<"Top category", ":", " ", "Other", ":", e>>,
       <<"note", " ", e>>,
       <<" ", "Eating Out", " ", ":", " ", e, " ">>,
       <<"Top merchants", ":", e>>,
       <<"sixth", ":", e>>,
       <<"seventh", ":", e>> >>

Editions == {"$1.00", "$2.00"}

LineLists == {SubSeq(Edition(e), 1, n) : e \in Editions, n \in 0..Len(Edition("$1.00"))}

\* three earlier runs: two sections created without rows, then three rows, the
\* second one without a date, appended to the first section
EarlierSumRuns ==
    << [label |-> MainLabel, rows |-> <<>>],
       [label |-> OtherLabel, rows |-> <<>>],
       [label |-> MainLabel,
        rows |-> <<EarlierRow(Some("2025-11-03")), EarlierRow(None),
                   EarlierRow(Some("2025-11-03"))>>] >>

RECURSIVE TabAfter(_, _)
TabAfter(runs, k) ==
    IF k = 0 THEN [colA |-> [r \in Rows |-> ""], body |-> [r \in Rows |-> ""], bg |-> {}]
    ELSE LET before == TabAfter(runs, k - 1)
         IN  upsert_card_section(before.colA, before.body, before.bg,
                                 runs[k].label, runs[k].rows)

InitSum ==
    /\ \E k \in {0, Len(EarlierSumRuns)} :
         \E tab \in {TabAfter(EarlierSumRuns, k)} :
            /\ colA = tab.colA
            /\ body = tab.body
            /\ bg = tab.bg
    /\ owner = [r \in Rows |-> ""]
    /\ call = NoCall
    /\ ncalls = 0
    /\ created = [l \in Labels |-> <<>>]
    /\ inv = [p \in Procs |-> Idle]
    /\ SideInit
    /\ PipeOff

\* main, lines 207-211, for a label, rows and summary lines
RunSheet(card_label, rows, lines) ==
    /\ ncalls < MaxRuns
    /\ \E res \in {upsert_card_section(colA, body, bg, card_label, rows)},
          values \in {summary_values(lines)} :
        /\ res.at + res.n - 1 <= MaxRow
        /\ res.anchor + Len(values) - 1 <= MaxRow
        /\ colA' = res.colA
        /\ body' = res.body
        /\ bg' = res.bg
        /\ owner' = [r \in Rows |->
                        IF r >= res.at /\ r < res.at + res.n THEN card_label ELSE owner[r]]
        /\ call' = [label |-> card_label, rows |-> rows, branch |-> res.branch,
                    anchor |-> res.anchor, at |-> res.at]
        /\ ncalls' = ncalls + 1
        /\ created' = IF res.branch = "CREATE"
                      THEN [created EXCEPT ![card_label] = Append(@, res.anchor)]
                      ELSE created
        /\ colH' = write_section_summary(colH, res.anchor, lines)
        /\ sumcall' = [label |-> card_label, anchor |-> res.anchor, values |-> values]
        /\ slots' = [slots EXCEPT ![card_label] =
                        @ \cup {r \in Rows : Covers(res.anchor, values, r)}]
    /\ UNCHANGED <<inv, tab_exists>>
    /\ UNCHANGED pipeVars

NextSum ==
    \E card_label \in Labels, rows \in SumRowLists, lines \in LineLists :
        RunSheet(card_label, rows, lines)

SpecSum ==
    InitSum /\ [][NextSum]_vars

(***************************************************************************)
(* Properties of the sequential upsert (Spec).                             *)
(***************************************************************************)
\* the text a cell holds after a value was written into an empty cell
CellText(opt) ==
    IF opt = None THEN "" ELSE opt[1]

HoldsRow(cA, bd, r, row) ==
    r \in Rows /\ cA[r] = CellText(row.a) /\ bd[r] = CellText(row.b)

HasMarker(cA, card_label) ==
    \E r \in Rows : cA[r] = section_header(card_label)

IsUpsertStep ==
    ncalls' = ncalls + 1

\* C1: a first upsert for a label not in the tab writes marker, titles and its n
\* rows as one block and returns the marker's row; the next upsert for the same
\* label returns the same anchor, leaves those n+2 rows as they were and puts
\* its m rows, in order, directly below the n-th data row.
C1_FirstCall ==
    (IsUpsertStep /\ ~HasMarker(colA, call'.label)) =>
        /\ call'.branch = "CREATE"
        /\ colA'[call'.anchor] = section_header(call'.label)
        /\ colA'[call'.anchor + 1] = "Date" /\ body'[call'.anchor + 1] = TitlesBody
        /\ \A i \in 1..Len(call'.rows) :
              HoldsRow(colA', body', call'.anchor + 1 + i, call'.rows[i])

C1_SecondCall ==
    (IsUpsertStep /\ call.branch = "CREATE" /\ call'.label = call.label) =>
        /\ call'.anchor = call.anchor
        /\ \A r \in call.anchor..(call.anchor + 1 + Len(call.rows)) :
              colA'[r] = colA[r] /\ body'[r] = body[r]
        /\ \A i \in 1..Len(call'.rows) :
              HoldsRow(colA', body', call.anchor + 1 + Len(call.rows) + i, call'.rows[i])

C1_SequentialUpsert ==
    [][C1_FirstCall /\ C1_SecondCall]_vars

\* C2: no upsert changes a cell of columns A..F in a row that belongs to (was
\* last written for) a section with another label.
C2_NoCrossContamination ==
    [][IsUpsertStep =>
        \A r \in Rows :
            (owner[r] # "" /\ owner[r] # call'.label) =>
                (colA'[r] = colA[r] /\ body'[r] = body[r])]_vars

\* C3: for each label the CREATE branch runs at most once, and every upsert for
\* a label returns the anchor its section was created at.
C3_CreateAtMostOnce ==
    /\ \A l \in Labels : Len(created[l]) <= 1
    /\ call.label # "" =>
          (created[call.label] # <<>> /\ call.anchor = created[call.label][1])

\* C4: an upsert for a label leaves every row written by the earlier upserts
\* for that label as it was, at the same row index, whatever the rows' Date.
C4_AppendOnly ==
    [][IsUpsertStep =>
        \A r \in Rows :
            owner[r] = call'.label => (colA'[r] = colA[r] /\ body'[r] = body[r])]_vars

(***************************************************************************)
(* Properties of the interleaved upsert (SpecConc).                        *)
(***************************************************************************)
SearchedNotWritten(p) ==
    inv[p].pc \in {"get_last_row", "create", "scan", "append"}

InCreateBranch(p) ==
    inv[p].pc \in {"get_last_row", "create"}

Markers(card_label) ==
    {r \in Rows : colA[r] = section_header(card_label)}

\* C5: two invocations for one label that have both finished SEARCH before
\* either wrote, on a tab without that label's marker, are both in the CREATE
\* branch; the tab with two markers for the label is reachable (C5_TwoMarkers).
C5_BothTakeCreate ==
    \A p \in Procs, q \in Procs :
        (/\ p # q
         /\ inv[p].label = inv[q].label
         /\ SearchedNotWritten(p) /\ SearchedNotWritten(q)
         /\ Markers(inv[p].label) = {})
        => (InCreateBranch(p) /\ InCreateBranch(q))

C5_TwoMarkers ==
    \E l \in Labels :
        /\ Cardinality(Markers(l)) = 2
        /\ \A p \in Procs : inv[p].pc = "done" /\ inv[p].label = l

AllDone ==
    \A p \in Procs : inv[p].pc = "done"

RowPresent(row) ==
    \E r \in Rows : HoldsRow(colA, body, r, row)

\* C6: once both invocations have returned, every data row either was given is
\* in the tab at least once.
C6_AtLeastOnce ==
    AllDone =>
        \A p \in Procs : \A i \in 1..Len(inv[p].rows) : RowPresent(inv[p].rows[i])

(***************************************************************************)
(* Properties of the pipeline on one transaction (SpecRow).                *)
(***************************************************************************)
RowBuilt ==
    stage = "frame" /\ Len(df.rows) = 1

TheDescription == DescriptionOf(txns[1])

TheParsedAmount == parse_amount(txns[1].amount).v

DepositStyle ==
    \/ Lower(account_type) = Str_deposit_account
    \/ (Lower(account_type) = <<>> /\ Contains(Lower(bank), Str_rbc))

ClaimedNegative ==
    \/ (DepositStyle /\ looks_like_income(TheDescription))
    \/ (~DepositStyle /\ (\/ looks_like_income(TheDescription)
                           \/ looks_like_cc_payment(TheDescription)))

ClaimedAmount ==
    IF ClaimedNegative THEN -Abs(TheParsedAmount) ELSE Abs(TheParsedAmount)

\* C7: the normalized amount is -|x| exactly in the claimed cases and |x|
\* otherwise, an explicit account type decides whatever the bank is, and x and
\* -x give the same result.
C7_NormalizeSign ==
    RowBuilt =>
        \A x \in {TheParsedAmount}, d \in {TheDescription} :
            /\ df.rows[1].Amount = ClaimedAmount
            /\ normalize_amount(bank, account_type, d, -x) = df.rows[1].Amount
            /\ Lower(account_type) \in {Str_deposit_account, Str_credit_card} =>
                  \A b \in Banks :
                      normalize_amount(b, account_type, d, x) = df.rows[1].Amount

\* a card payment on an explicit credit card of a deposit-account bank, positive
\* in the statement, comes out negative
C7_Witness ==
    /\ RowBuilt
    /\ bank = Chars_RBC /\ Lower(account_type) = Str_credit_card
    /\ looks_like_cc_payment(TheDescription) /\ ~looks_like_income(TheDescription)
    /\ TheParsedAmount > 0
    /\ df.rows[1].Amount = -TheParsedAmount

MatchingRules ==
    {k \in 1..Len(RULES) :
        RuleMatches(RULES[k], StripPrefix(CategorizePrefixes, TheDescription, 1),
                    TheDescription)}

Least(ks) ==
    CHOOSE k \in ks : \A j \in ks : k <= j

\* C8: the category is the label of the first rule, in the order of RULES, with
\* a pattern matching the stripped or the original description, whatever the
\* sign of the amount; without a matching rule it is "Credit/Income" below zero
\* and "Other" from zero up.
C8_FirstMatchWins ==
    RowBuilt =>
        \A ks \in {MatchingRules} :
            /\ df.rows[1].Category =
                  IF ks # {} THEN RULES[Least(ks)].cat
                  ELSE IF df.rows[1].Amount < 0 THEN "Credit/Income" ELSE "Other"
            /\ ks # {} =>
                  categorize(TheDescription, -df.rows[1].Amount) = df.rows[1].Category

\* a description that matches a bookkeeping rule and a later rule
C8_Witness ==
    /\ RowBuilt
    /\ \E k \in MatchingRules, j \in MatchingRules :
          k < j /\ RULES[k].cat \in {"Credit Card Payment", "Transfers"}
    /\ df.rows[1].Category \in {"Credit Card Payment", "Transfers"}

(***************************************************************************)
(* Properties of the pipeline on a batch (SpecPipe).                       *)
(***************************************************************************)
ClaimedBookkeeping(r) ==
    r.Category \in {"Transfers", "Credit Card Payment"}

ClaimedSpend(r) ==
    r.Amount > 0 /\ ~ClaimedBookkeeping(r)

SpendRows == SelectSeq(df.rows, ClaimedSpend)

\* C9: the total that summarize reports is the sum of Amount over the records
\* with Amount > 0 that are not "Transfers" or "Credit Card Payment"; the top
\* category and the top merchants are made of those records alone.
C9_SpendExcludesBookkeeping ==
    stage = "summarized" =>
        /\ \A i \in 1..Len(df.rows) :
              df.rows[i].IsBookkeeping = ClaimedBookkeeping(df.rows[i])
        /\ Len(out.lines) = 4
        /\ out.lines[1].amount = SumAmount(SpendRows)
        /\ ~out.lines[2].na =>
              /\ \E i \in 1..Len(SpendRows) : SpendRows[i].Category = out.lines[2].name
              /\ out.lines[2].amount =
                    SumAmount(SelectSeq(SpendRows,
                        LAMBDA r : r.Category = out.lines[2].name))
        /\ \A n \in 1..Len(out.lines[4].items) :
              /\ \E i \in 1..Len(SpendRows) :
                    clean_merchant(SpendRows[i].Merchant) = out.lines[4].items[n].name
              /\ out.lines[4].items[n].amount =
                    SumAmount(SelectSeq(SpendRows,
                        LAMBDA r : clean_merchant(r.Merchant) = out.lines[4].items[n].name))

\* a batch with a positive bookkeeping record, a non-positive record and a
\* spend record, summarized
C9_Witness ==
    /\ stage = "summarized"
    /\ \E i \in 1..Len(df.rows) : df.rows[i].Amount > 0 /\ ClaimedBookkeeping(df.rows[i])
    /\ \E i \in 1..Len(df.rows) : df.rows[i].Amount <= 0
    /\ Len(SpendRows) > 0
    /\ out.lines[1].amount = SumAmount(SpendRows)

\* C10: on a batch without spend records (empty, all bookkeeping or all
\* non-positive) summarize returns the four placeholder lines and does not
\* raise.
C10_EmptySpendSummary ==
    (stage \in {"summarized", "failed"} /\ Len(SpendRows) = 0) =>
        /\ out.err = ""
        /\ Len(out.lines) = 4
        /\ out.lines[1].amount = 0 /\ out.lines[3].amount = 0
        /\ out.lines[2].na /\ out.lines[4].na

(***************************************************************************)
(* Properties of one run of main with --sheet (SpecMain).                  *)
(***************************************************************************)
Malformed ==
    \E k \in 1..Len(txns) : ~parse_amount(txns[k].amount).ok

\* C11: in a run whose batch holds a record with an unparseable amount every
\* step leaves the store as it was (no tab created, no cell of A..F or H..I
\* written, no background set): the only step is to_csv_rows ending with the
\* error, and no frame is built.
C11_MalformedAborts ==
    [][Malformed =>
          /\ UNCHANGED <<colA, body, bg, colH, tab_exists>>
          /\ stage' = "aborted" /\ out'.err = "ValueError" /\ df' = NoFrame]_vars

\* a run ended by the malformed amount of a later record, the tab still missing
C11_Witness ==
    /\ stage = "aborted"
    /\ Len(txns) >= 2
    /\ parse_amount(txns[1].amount).ok
    /\ ~parse_amount(txns[Len(txns)].amount).ok
    /\ ~tab_exists
    /\ \A r \in Rows : colA[r] = "" /\ colH[r] = NoCell

\* the index of the last non-empty row of column A, 0 in an empty tab
LastFilledRow ==
    IF \A r \in Rows : colA[r] = "" THEN 0
    ELSE CHOOSE r \in Rows : colA[r] # "" /\ \A q \in Rows : q > r => colA[q] = ""

\* the step created the section with its marker in row top
CreatePlacedAt(top) ==
    /\ call'.branch = "CREATE"
    /\ call'.anchor = top
    /\ colA'[top] = section_header(call'.label)
    /\ colA'[top + 1] = "Date" /\ body'[top + 1] = TitlesBody
    /\ \A k \in 1..Len(call'.rows) : HoldsRow(colA', body', top + 1 + k, call'.rows[k])

\* C14: when the marker is not found the section is written with its marker in
\* row L + 2, L the last non-empty row of column A, the titles in the next row
\* and the data rows below, and L + 2 is returned; in the empty tab (L = 0) the
\* marker goes to row 3.
C14_CreateBelowLastRow ==
    [][(IsUpsertStep /\ ~HasMarker(colA, call'.label)) =>
          CreatePlacedAt(Max(LastFilledRow, 1) + 2)]_vars

\* C14 as stated: row L + 2 for every L >= 0, the empty tab included
C14_CreateAtLPlus2 ==
    [][(IsUpsertStep /\ ~HasMarker(colA, call'.label)) =>
          CreatePlacedAt(LastFilledRow + 2)]_vars

\* a section created below another label's section, with data rows
C14_Witness ==
    /\ call.branch = "CREATE"
    /\ call.anchor >= 6
    /\ Len(call.rows) >= 1
    /\ colA[call.anchor] = section_header(call.label)
    /\ colA[call.anchor - 2] # "" /\ colA[call.anchor - 1] = ""
    /\ HasMarker(colA, OtherLabel)

(***************************************************************************)
(* Properties of upsert_card_section with write_section_summary (SpecSum). *)
(***************************************************************************)
\* the first row of column A that holds the marker of the label, 0 if none
MarkerRow(card_label) ==
    IF HasMarker(colA, card_label)
    THEN CHOOSE r \in Rows :
            /\ colA[r] = section_header(card_label)
            /\ \A q \in Rows : q < r => colA[q] # section_header(card_label)
    ELSE 0

\* the row below the marker is the column-titles row
TitlesBelow(m) ==
    m + 1 \in Rows /\ colA[m + 1] = "Date" /\ body[m + 1] = TitlesBody

Misaligned(card_label) ==
    MarkerRow(card_label) # 0 /\ ~TitlesBelow(MarkerRow(card_label))

\* C12: an upsert with data rows that finds the marker of its label with a row
\* below it that is not the column-titles row writes nothing into the table and
\* reports a condition of its own instead of appending.
C12_RefusesMisaligned ==
    [][(IsUpsertStep /\ Misaligned(call'.label) /\ call'.rows # <<>>) =>
          /\ colA' = colA /\ body' = body
          /\ call'.branch \notin {"CREATE", "APPEND"}]_vars

\* C13: after write_section_summary with at least one line the six rows of H
\* and I from the anchor row hold the label/value pairs of this call's lines
\* and nothing else, also when the call before wrote more lines into the same
\* slot.
C13_SummaryOverwrites ==
    [][(/\ IsUpsertStep
        /\ sumcall.label = sumcall'.label /\ sumcall.anchor = sumcall'.anchor
        /\ sumcall'.values # <<>>) =>
          \A k \in 1..6 :
              sumcall'.anchor + k - 1 \in Rows =>
                  colH'[sumcall'.anchor + k - 1] =
                      IF k <= Len(sumcall'.values) THEN sumcall'.values[k] ELSE NoCell]_vars

\* C15: for two labels whose sections these runs created, the rows of H and I
\* written for the summary of one are disjoint from those written for the
\* summary of the other.
C15_SlotsDisjoint ==
    \A l1 \in Labels, l2 \in Labels :
        (l1 # l2 /\ Len(created[l1]) = 1 /\ Len(created[l2]) = 1) =>
            slots[l1] \cap slots[l2] = {}

====
